---- MODULE Spec2Model ----
(***************************************************************************)
(* The renaming pass of src/renamer.rs as a state machine.                 *)
(*                                                                         *)
(* rename is a recursive function; the machine runs it with an explicit    *)
(* call stack.  Every activation of rename, rename_bindings,               *)
(* rename_binding and rename_module is one frame of `stack`, with the      *)
(* position it has reached (pc) and the locals it holds.  One action is    *)
(* the code of one function between two recursive calls.  rename_pattern   *)
(* and make_unique call nothing that recurses into rename, so they are     *)
(* operators on the Renamer's fields.                                      *)
(***************************************************************************)
EXTENDS Integers, Sequences, FiniteSets, TLC

\* Bounds of the model: the inputs are all expressions of at most MaxNodes
\* expression nodes, all modules whose bindings hold at most MaxModuleNodes
\* expression nodes, and the programs of Scenarios.
MaxNodes == 4
MaxModuleNodes == 2

\* InternedStr values.  Constructors, variables and modules are all interned
\* strings, so one symbol can name a constructor and a local variable.
Symbols == {"x", "y"}

\* The expression variants rename passes through untouched.
Literals == {"Number", "Rational", "String", "Char"}

(***************************************************************************)
(* Name, and the Renamer's starting counter.                               *)
(***************************************************************************)
Name(s, u) == [name |-> s, uid |-> u]

InitialUniqueId == 1

(***************************************************************************)
(* The syntax tree of module.rs, as far as renamer.rs takes it apart.      *)
(* An identifier position holds an InternedStr in the input and a Name in  *)
(* the output.                                                             *)
(***************************************************************************)
TypedExpr(e, t, l) == [expr |-> e, typ |-> t, location |-> l]

Number(n) == [kind |-> "Number", value |-> n]
Rational(r) == [kind |-> "Rational", value |-> r]
String(s) == [kind |-> "String", value |-> s]
Char(c) == [kind |-> "Char", value |-> c]
Identifier(i) == [kind |-> "Identifier", name |-> i]
Apply(f, a) == [kind |-> "Apply", func |-> f, arg |-> a]
Lambda(a, b) == [kind |-> "Lambda", arg |-> a, body |-> b]
Let(bs, e) == [kind |-> "Let", bindings |-> bs, expr |-> e]
Case(e, as) == [kind |-> "Case", expr |-> e, alts |-> as]
Do(bs, e) == [kind |-> "Do", bindings |-> bs, expr |-> e]

Binding(n, e, td, a) == [name |-> n, expression |-> e, typeDecl |-> td, arity |-> a]
Located(l, n) == [location |-> l, node |-> n]
Alternative(p, e) == [pattern |-> p, expression |-> e]

DoExpr(e) == [kind |-> "DoExpr", expr |-> e]
DoLet(bs) == [kind |-> "DoLet", bindings |-> bs]
DoBind(p, e) == [kind |-> "DoBind", pattern |-> p, expr |-> e]

NumberPattern(i) == [kind |-> "NumberPattern", value |-> i]
ConstructorPattern(s, ps) == [kind |-> "ConstructorPattern", name |-> s, patterns |-> ps]
IdentifierPattern(s) == [kind |-> "IdentifierPattern", name |-> s]
WildCardPattern == [kind |-> "WildCardPattern"]

Constructor(n, t, tg, a) == [name |-> n, typ |-> t, tag |-> tg, arity |-> a]
DataDefinition(cs, t, ps) == [constructors |-> cs, typ |-> t, parameters |-> ps]
Instance(bs, cs, t, cn) == [bindings |-> bs, constraints |-> cs, typ |-> t, classname |-> cn]
Module(n, cl, dd, td, bs, is) ==
    [name |-> n, classes |-> cl, dataDefinitions |-> dd,
     typeDeclarations |-> td, bindings |-> bs, instances |-> is]

(***************************************************************************)
(* The inputs a pass is run on.  The parser's output is any tree of the    *)
(* types above; ExprsOfSize(n) is every expression of n expression nodes   *)
(* over Symbols and Patterns.  The location of a node is the size of its   *)
(* subtree and literals have another type than the rest, so that a node    *)
(* differs from its children in the payload rename carries over.           *)
(***************************************************************************)
Patterns ==
    { NumberPattern(1), IdentifierPattern("x"), IdentifierPattern("y"),
      ConstructorPattern("x", <<IdentifierPattern("x"), WildCardPattern>>) }

TypeDeclOf(s) == [name |-> s, typ |-> "a"]

Leaves ==
    {TypedExpr(Number(1), "Int", 1)} \cup {TypedExpr(Identifier(s), "a", 1) : s \in Symbols}

\* The union of the sets f[1], ..., f[k].  (TLC sorts a set when it counts it
\* and then adds to it by binary search.)
RECURSIVE Flatten(_, _)

Flatten(f, k) ==
    IF k = 0 THEN {}
    ELSE LET rest == Flatten(f, k - 1)
         IN  IF Cardinality(rest) >= 0 THEN rest \cup f[k] ELSE {}

\* In the operators below t is the table of the expressions built so far:
\* t[j] is the set of the expressions of j nodes.
RECURSIVE BindingSeqs(_, _, _), AltSeqs(_, _, _), StmtSeqs(_, _, _), ExprTable(_)

BindingsOfSize(t, m) ==
    {Binding(s, e, TypeDeclOf(s), m) : s \in Symbols, e \in t[m]}

\* The sequences of k bindings whose expressions have m nodes together.
BindingSeqs(t, m, k) ==
    IF k = 0 THEN (IF m = 0 THEN {<<>>} ELSE {})
    ELSE Flatten([j \in 1..(m - k + 1) |->
                    {<<b>> \o r : b \in BindingsOfSize(t, j), r \in BindingSeqs(t, m - j, k - 1)}],
                 m - k + 1)

BindingLists(t, m) == Flatten([k \in 1..m |-> BindingSeqs(t, m, k)], m)

AltsOfSize(t, m) ==
    {Alternative(Located(m, p), e) : p \in Patterns, e \in t[m]}

AltSeqs(t, m, k) ==
    IF k = 0 THEN (IF m = 0 THEN {<<>>} ELSE {})
    ELSE Flatten([j \in 1..(m - k + 1) |->
                    {<<a>> \o r : a \in AltsOfSize(t, j), r \in AltSeqs(t, m - j, k - 1)}],
                 m - k + 1)

AltLists(t, m) == Flatten([k \in 1..m |-> AltSeqs(t, m, k)], m)

StmtsOfSize(t, m) ==
    Flatten(<<{DoExpr(e) : e \in t[m]},
              {DoLet(bs) : bs \in BindingLists(t, m)},
              {DoBind(Located(m, p), e) : p \in Patterns, e \in t[m]}>>, 3)

StmtSeqs(t, m, k) ==
    IF k = 0 THEN (IF m = 0 THEN {<<>>} ELSE {})
    ELSE Flatten([j \in 1..(m - k + 1) |->
                    {<<st>> \o r : st \in StmtsOfSize(t, j), r \in StmtSeqs(t, m - j, k - 1)}],
                 m - k + 1)

\* A do-block may consist of its final expression alone.
StmtLists(t, m) == IF m = 0 THEN {<<>>} ELSE Flatten([k \in 1..m |-> StmtSeqs(t, m, k)], m)

\* The expressions of n nodes, n > 1, from the smaller ones.
ExprsOfSize(t, n) ==
    Flatten(<<{TypedExpr(Lambda(s, b), "a", n) : s \in Symbols, b \in t[n - 1]},
              {TypedExpr(Do(<<>>, e), "a", n) : e \in t[n - 1]},
              Flatten([j \in 1..(n - 2) |->
                          Flatten(<<{TypedExpr(Apply(f, a), "a", n) :
                                        f \in t[j], a \in t[n - 1 - j]},
                                    {TypedExpr(Let(bs, e), "a", n) :
                                        bs \in BindingLists(t, j), e \in t[n - 1 - j]},
                                    {TypedExpr(Case(e, as), "a", n) :
                                        as \in AltLists(t, j), e \in t[n - 1 - j]},
                                    {TypedExpr(Do(ss, e), "a", n) :
                                        ss \in StmtLists(t, j), e \in t[n - 1 - j]}>>, 4)],
                      n - 2)>>, 3)

ExprTable(n) ==
    IF n = 1 THEN <<Leaves>>
    ELSE LET t == ExprTable(n - 1) IN Append(t, ExprsOfSize(t, n))

\* Programs larger than MaxNodes: the examples of the documentation and
\* small variations of them.
V(s, l) == TypedExpr(Identifier(s), "a", l)
Num(l) == TypedExpr(Number(1), "Int", l)
E(e, l) == TypedExpr(e, "a", l)
B(s, e) == Binding(s, e, TypeDeclOf(s), 0)

ScenarioExprs ==
    { \* lambda x -> apply(lambda x -> x, x)
      E(Lambda("x", E(Apply(E(Lambda("x", V("x", 1)), 2), V("x", 3)), 4)), 5),
      \* let y = lambda x -> apply(y, x) in apply(y, 1)
      E(Let(<<B("y", E(Lambda("x", E(Apply(V("y", 1), V("x", 2)), 3)), 4))>>,
            E(Apply(V("y", 5), Num(6)), 7)), 8),
      \* let { x = y; y = lambda x -> apply(x, y) } in apply(x, y)
      E(Let(<<B("x", V("y", 1)),
              B("y", E(Lambda("x", E(Apply(V("x", 2), V("y", 3)), 4)), 5))>>,
            E(Apply(V("x", 6), V("y", 7)), 8)), 9),
      \* case y of { x(x, _) -> x; y -> apply(x, y) }
      E(Case(V("y", 1),
             <<Alternative(Located(2, ConstructorPattern("x", <<IdentifierPattern("x"), WildCardPattern>>)),
                           V("x", 3)),
               Alternative(Located(4, IdentifierPattern("y")),
                           E(Apply(V("x", 5), V("y", 6)), 7))>>), 8),
      \* lambda y -> apply(do { let x = 1; apply(y, x) }, x)
      E(Lambda("y",
               E(Apply(E(Do(<<DoLet(<<B("x", Num(1))>>)>>, E(Apply(V("y", 2), V("x", 3)), 4)), 5),
                       V("x", 6)), 7)), 8),
      \* lambda y -> apply(do { x <- y; x }, x)
      E(Lambda("y",
               E(Apply(E(Do(<<DoBind(Located(1, IdentifierPattern("x")), V("y", 2))>>, V("x", 3)), 4),
                       V("x", 5)), 6)), 7),
      \* let { x = do { let y = 1; y }; y = x } in y
      E(Let(<<B("x", E(Do(<<DoLet(<<B("y", Num(1))>>)>>, V("y", 2)), 3)),
              B("y", V("x", 4))>>,
            V("y", 5)), 6),
      \* let x = do { let x = 1; 1 } in x
      E(Let(<<B("x", E(Do(<<DoLet(<<B("x", Num(1))>>)>>, Num(2)), 3))>>, V("x", 4)), 5),
      \* case do { let x = 1; x } of { y -> x }
      E(Case(E(Do(<<DoLet(<<B("x", Num(1))>>)>>, V("x", 2)), 3),
             <<Alternative(Located(4, IdentifierPattern("y")), V("x", 5))>>), 6),
      \* lambda x -> case x of { x(x, _) -> lambda y -> x }
      E(Lambda("x",
               E(Case(V("x", 1),
                      <<Alternative(Located(2, ConstructorPattern("x", <<IdentifierPattern("x"), WildCardPattern>>)),
                                    E(Lambda("y", V("x", 3)), 4))>>), 5)), 6),
      \* lambda x -> apply(lambda y -> do { let x = 1; x }, x)
      E(Lambda("x",
               E(Apply(E(Lambda("y", E(Do(<<DoLet(<<B("x", Num(1))>>)>>, V("x", 2)), 3)), 4),
                       V("x", 5)), 6)), 7),
      \* apply(apply("s", 'c'), 1.5)
      E(Apply(E(Apply(TypedExpr(String("s"), "String", 1), TypedExpr(Char("c"), "Char", 2)), 3),
              TypedExpr(Rational(15), "Double", 4)), 5) }

ExprInputs ==
    LET t == ExprTable(MaxNodes) IN Flatten(Append(t, ScenarioExprs), MaxNodes + 1)

DataDefs ==
    <<DataDefinition(<<Constructor("x", "a -> T a", 0, 1), Constructor("y", "T a", 1, 0)>>,
                     "T a", <<"a">>)>>

InstanceOf(bs) == Instance(bs, <<"Eq a">>, "T a", "Eq")

ModuleOf(n, bs, is) == Module(n, <<"class Eq">>, DataDefs, <<TypeDeclOf("x")>>, bs, is)

ModuleBindings(t, m) == IF m = 0 THEN {<<>>} ELSE BindingLists(t, m)

ModuleInstances(t, m) ==
    IF m = 0 THEN {<<>>} ELSE {<<InstanceOf(bs)>> : bs \in BindingLists(t, m)}

\* The modules with i nodes in the bindings of an instance and b nodes in
\* the top-level bindings.
ModulesOfSize(t, i, b) ==
    {ModuleOf(n, bs, is) : n \in Symbols, bs \in ModuleBindings(t, b), is \in ModuleInstances(t, i)}

ScenarioModules ==
    { \* x = do { let y = 1; 1 }; x = y
      ModuleOf("x", <<B("x", E(Do(<<DoLet(<<B("y", Num(1))>>)>>, Num(2)), 3)), B("x", V("y", 4))>>, <<>>),
      \* instance { x = do { y <- x; y } }; instance { y = y }; y = lambda x -> y
      ModuleOf("y", <<B("y", E(Lambda("x", V("y", 1)), 2))>>,
               <<InstanceOf(<<B("x", E(Do(<<DoBind(Located(1, IdentifierPattern("y")), V("x", 2))>>,
                                          V("y", 3)), 4))>>),
                 InstanceOf(<<B("y", V("y", 5))>>)>>),
      \* instance { x = lambda y -> apply(x, y) }; x = y
      ModuleOf("x", <<B("x", V("y", 5))>>,
               <<InstanceOf(<<B("x", E(Lambda("y", E(Apply(V("x", 1), V("y", 2)), 3)), 4))>>)>>) }

ModuleInputs ==
    LET t == ExprTable(MaxModuleNodes)
    IN  Flatten(<<ScenarioModules,
                  Flatten([i \in 1..(MaxModuleNodes + 1) |->
                              Flatten([b \in 1..(MaxModuleNodes + 2 - i) |->
                                          ModulesOfSize(t, i - 1, b - 1)],
                                      MaxModuleNodes + 2 - i)],
                          MaxModuleNodes + 1)>>, 2)

(***************************************************************************)
(* ScopedMap<InternedStr, Name>: a stack of frames, the innermost last.    *)
(* A frame is a set of entries, at most one for a key.  The first frame is *)
(* the one a new map inserts into before any scope is entered.             *)
(***************************************************************************)
Entry(k, v) == [key |-> k, value |-> v]

None == [some |-> FALSE]
Some(v) == [some |-> TRUE, value |-> v]

ScopedMapNew == << {} >>

enter_scope(m) == Append(m, {})

exit_scope(m) == SubSeq(m, 1, Len(m) - 1)

insert(m, k, v) ==
    [m EXCEPT ![Len(m)] = {en \in @ : en.key # k} \cup {Entry(k, v)}]

find(m, k) ==
    LET holders == {i \in 1..Len(m) : \E en \in m[i] : en.key = k}
        innermost == CHOOSE i \in holders : \A j \in holders : j <= i
    IN  IF holders = {} THEN None
        ELSE Some((CHOOSE en \in m[innermost] : en.key = k).value)

(***************************************************************************)
(* The state.                                                              *)
(*   input              the argument of rename_expr / rename_module        *)
(*   status             "idle", "running", "done", or "panicked" when the  *)
(*                      expect of rename_bindings fails                    *)
(*   stack              the activations, the running one first             *)
(*   ret                the value the last activation returned, until its  *)
(*                      caller takes it; the result of the pass at the end *)
(*   uniques, unique_id the fields of the Renamer                          *)
(*   log                history: the calls made on the Renamer so far      *)
(*   passes             history: the input and the result of every         *)
(*                      finished pass                                      *)
(***************************************************************************)
VARIABLES input, status, stack, ret, uniques, unique_id, log, passes

vars == <<input, status, stack, ret, uniques, unique_id, log, passes>>

\* The Renamer as one value, for the operators that change several fields.
Renamer == [uniques |-> uniques, unique_id |-> unique_id, log |-> log]

SetRenamer(r) ==
    /\ uniques' = r.uniques
    /\ unique_id' = r.unique_id
    /\ log' = r.log

Logged(r, ev) == [r EXCEPT !.log = Append(@, ev)]

\* self.uniques.enter_scope() and self.uniques.exit_scope()
EnterScope(r) == Logged([r EXCEPT !.uniques = enter_scope(@)], [op |-> "enter_scope"])

ExitScope(r) == Logged([r EXCEPT !.uniques = exit_scope(@)], [op |-> "exit_scope"])

\* make_unique using the counter before incrementing it.
make_unique_post_increment(r, name) ==
    LET u == Name(name, r.unique_id)
    IN  [r |-> Logged([r EXCEPT !.unique_id = @ + 1, !.uniques = insert(@, name, u)],
                      [op |-> "make_unique", name |-> u]),
         name |-> u]

make_unique(r, name) ==
    LET id == r.unique_id + 1
        u == Name(name, id)
    IN  [r |-> Logged([r EXCEPT !.unique_id = id, !.uniques = insert(@, name, u)],
                      [op |-> "make_unique", name |-> u]),
         name |-> u]

\* get_name giving a symbol it does not find the counter's value.
get_name_counter(r, s) ==
    LET found == find(r.uniques, s)
    IN  IF found.some THEN Name(s, found.value.uid) ELSE Name(s, r.unique_id)

get_name(r, s) ==
    LET found == find(r.uniques, s)
    IN  IF found.some THEN Name(s, found.value.uid) ELSE Name(s, 0)

RECURSIVE rename_pattern(_, _), rename_patterns(_, _)

\* ps.move_iter().map(|p| self.rename_pattern(p)).collect(), left to right
rename_patterns(r, ps) ==
    IF ps = <<>> THEN [r |-> r, patterns |-> <<>>]
    ELSE LET first == rename_pattern(r, Head(ps))
             rest == rename_patterns(first.r, Tail(ps))
         IN  [r |-> rest.r, patterns |-> <<first.pattern>> \o rest.patterns]

\* The constructor's name is looked up like an identifier.
rename_pattern_looks_up(r, pattern) ==
    CASE pattern.kind = "NumberPattern" ->
            [r |-> r, pattern |-> NumberPattern(pattern.value)]
      [] pattern.kind = "ConstructorPattern" ->
            LET ps2 == rename_patterns(r, pattern.patterns)
            IN  [r |-> ps2.r,
                 pattern |-> ConstructorPattern(get_name(r, pattern.name), ps2.patterns)]
      [] pattern.kind = "IdentifierPattern" ->
            LET u == make_unique(r, pattern.name)
            IN  [r |-> u.r, pattern |-> IdentifierPattern(u.name)]
      [] pattern.kind = "WildCardPattern" ->
            [r |-> r, pattern |-> WildCardPattern]

rename_pattern(r, pattern) ==
    CASE pattern.kind = "NumberPattern" ->
            [r |-> r, pattern |-> NumberPattern(pattern.value)]
      [] pattern.kind = "ConstructorPattern" ->
            LET ps2 == rename_patterns(r, pattern.patterns)
            IN  [r |-> ps2.r,
                 pattern |-> ConstructorPattern(Name(pattern.name, 0), ps2.patterns)]
      [] pattern.kind = "IdentifierPattern" ->
            LET u == make_unique(r, pattern.name)
            IN  [r |-> u.r, pattern |-> IdentifierPattern(u.name)]
      [] pattern.kind = "WildCardPattern" ->
            [r |-> r, pattern |-> WildCardPattern]

RECURSIVE register_bindings(_, _)

\* Only the first name of the group is registered.
register_bindings_first_only(r, bindings) ==
    IF bindings = <<>> THEN r ELSE make_unique(r, Head(bindings).name).r

\* for bind in bindings.iter() { self.make_unique(bind.name.clone()); }
register_bindings(r, bindings) ==
    IF bindings = <<>> THEN r
    ELSE register_bindings(make_unique(r, Head(bindings).name).r, Tail(bindings))

\* TypedExpr::with_location(e, location) and t.typ = typ
DefaultType == "?"

with_location(e, location) == TypedExpr(e, DefaultType, location)

\* The result keeps the type with_location gives it.
Typed_without_typ(e, input_expr) == with_location(e, input_expr.location)

Typed(e, input_expr) ==
    [with_location(e, input_expr.location) EXCEPT !.typ = input_expr.typ]

rename_data_definition(data) ==
    DataDefinition(
        [i \in 1..Len(data.constructors) |->
            LET ctor == data.constructors[i]
            IN  Constructor(Name(ctor.name, 0), ctor.typ, ctor.tag, ctor.arity)],
        data.typ, data.parameters)

(***************************************************************************)
(* Activations.  arg is the argument of the call, pc the position          *)
(* reached, idx (and jdx) the position of the iterator being mapped, acc   *)
(* (and acc2) what the iterator has collected, tmp the values held while a *)
(* callee runs.  entry is history: the scope table the activation was      *)
(* called with, kept from its first step on.                               *)
(***************************************************************************)
Frame(fn, arg) ==
    [fn |-> fn, arg |-> arg, pc |-> "start", idx |-> 1, jdx |-> 1,
     acc |-> <<>>, acc2 |-> <<>>, tmp |-> <<>>, entry |-> <<>>]

Top == Head(stack)

Running(fn, pc) ==
    /\ status = "running"
    /\ stack # <<>>
    /\ Top.fn = fn
    /\ Top.pc = pc

InRename(kind, pc) ==
    /\ Running("rename", pc)
    /\ Top.arg.expr.kind = kind

\* The scope table the running activation was called with: the current one
\* as long as the activation has not taken a step.
Entry0 == IF Top.pc = "start" /\ Top.idx = 1 THEN uniques ELSE Top.entry

\* The running activation moves on to frame f.
Goto(f) ==
    /\ stack' = <<[f EXCEPT !.entry = Entry0]>> \o Tail(stack)
    /\ ret' = <<>>
    /\ UNCHANGED <<input, status, passes>>

\* The running activation, now f, calls callee.
Call(f, callee) ==
    /\ stack' = <<callee, [f EXCEPT !.entry = Entry0]>> \o Tail(stack)
    /\ ret' = <<>>
    /\ UNCHANGED <<input, status, passes>>

\* The running activation returns v; the entry point's return ends the pass.
Return(v) ==
    /\ stack' = Tail(stack)
    /\ ret' = <<v>>
    /\ status' = IF Tail(stack) = <<>> THEN "done" ELSE status
    /\ passes' = IF Tail(stack) = <<>>
                 THEN Append(passes, [input |-> input[1], output |-> v])
                 ELSE passes
    /\ UNCHANGED input

Init ==
    /\ input = <<>>
    /\ status = "idle"
    /\ stack = <<>>
    /\ ret = <<>>
    /\ uniques = ScopedMapNew
    /\ unique_id = InitialUniqueId
    /\ log = <<>>
    /\ passes = <<>>

(***************************************************************************)
(* rename_expr and rename_module: a new Renamer, and the first call.       *)
(***************************************************************************)
rename_expr ==
    /\ status = "idle"
    /\ \E expr \in ExprInputs :
          /\ input' = <<expr>>
          /\ stack' = <<Frame("rename", expr)>>
    /\ status' = "running"
    /\ ret' = <<>>
    /\ SetRenamer([uniques |-> ScopedMapNew, unique_id |-> InitialUniqueId, log |-> <<>>])
    /\ UNCHANGED passes

\* Lines 143-179: the data definitions are rewritten before anything is renamed.
rename_module ==
    /\ status = "idle"
    /\ \E module \in ModuleInputs :
          /\ input' = <<module>>
          /\ stack' = <<[Frame("rename_module", module) EXCEPT
                            !.pc = "instances",
                            !.tmp = <<[i \in 1..Len(module.dataDefinitions) |->
                                          rename_data_definition(module.dataDefinitions[i])]>>]>>
    /\ status' = "running"
    /\ ret' = <<>>
    /\ SetRenamer([uniques |-> ScopedMapNew, unique_id |-> InitialUniqueId, log |-> <<>>])
    /\ UNCHANGED passes

(***************************************************************************)
(* A later call of an entry point, after a pass has finished: on an input  *)
(* an earlier pass was given or, for the second pass, on one of a few      *)
(* others.  What the earlier pass left in uniques and unique_id is still   *)
(* there when the call is made.                                            *)
(***************************************************************************)
MaxPasses == 3

RepeatInputs ==
    { \* lambda y -> apply(do { x <- y; x }, x)
      E(Lambda("y",
               E(Apply(E(Do(<<DoBind(Located(1, IdentifierPattern("x")), V("y", 2))>>, V("x", 3)), 4),
                       V("x", 5)), 6)), 7),
      \* x = do { let y = 1; 1 }; x = y
      ModuleOf("x", <<B("x", E(Do(<<DoLet(<<B("y", Num(1))>>)>>, Num(2)), 3)), B("x", V("y", 4))>>, <<>>) }

AgainInputs ==
    {passes[i].input : i \in 1..Len(passes)} \cup (IF Len(passes) = 1 THEN RepeatInputs ELSE {})

Again == status = "done" /\ Len(passes) < MaxPasses

\* The Renamer of the earlier pass is used again.
rename_expr_again_keeps_renamer ==
    /\ Again
    /\ \E expr \in {i \in AgainInputs : ~("instances" \in DOMAIN i)} :
          /\ input' = <<expr>>
          /\ stack' = <<Frame("rename", expr)>>
    /\ status' = "running"
    /\ ret' = <<>>
    /\ UNCHANGED <<uniques, unique_id, log, passes>>

rename_expr_again ==
    /\ Again
    /\ \E expr \in {i \in AgainInputs : ~("instances" \in DOMAIN i)} :
          /\ input' = <<expr>>
          /\ stack' = <<Frame("rename", expr)>>
    /\ status' = "running"
    /\ ret' = <<>>
    /\ SetRenamer([uniques |-> ScopedMapNew, unique_id |-> InitialUniqueId, log |-> <<>>])
    /\ UNCHANGED passes

rename_module_again ==
    /\ Again
    /\ \E module \in {i \in AgainInputs : "instances" \in DOMAIN i} :
          /\ input' = <<module>>
          /\ stack' = <<[Frame("rename_module", module) EXCEPT
                            !.pc = "instances",
                            !.tmp = <<[i \in 1..Len(module.dataDefinitions) |->
                                          rename_data_definition(module.dataDefinitions[i])]>>]>>
    /\ status' = "running"
    /\ ret' = <<>>
    /\ SetRenamer([uniques |-> ScopedMapNew, unique_id |-> InitialUniqueId, log |-> <<>>])
    /\ UNCHANGED passes

(***************************************************************************)
(* rename                                                                  *)
(***************************************************************************)
RenameLiteral ==
    /\ Running("rename", "start")
    /\ Top.arg.expr.kind \in Literals
    /\ Return(Typed([kind |-> Top.arg.expr.kind, value |-> Top.arg.expr.value], Top.arg))
    /\ UNCHANGED <<uniques, unique_id, log>>

\* An identifier the scope table does not hold is allocated a uid.
RenameIdentifier_allocates ==
    /\ InRename("Identifier", "start")
    /\ LET found == find(uniques, Top.arg.expr.name)
           u == make_unique(Renamer, Top.arg.expr.name)
       IN  IF found.some
           THEN /\ Return(Typed(Identifier(found.value), Top.arg))
                /\ SetRenamer(Logged(Renamer, [op |-> "get_name", name |-> found.value]))
           ELSE /\ Return(Typed(Identifier(u.name), Top.arg))
                /\ SetRenamer(u.r)

RenameIdentifier ==
    /\ InRename("Identifier", "start")
    /\ LET n == get_name(Renamer, Top.arg.expr.name)
       IN  /\ Return(Typed(Identifier(n), Top.arg))
           /\ SetRenamer(Logged(Renamer, [op |-> "get_name", name |-> n]))

RenameApplyFunc ==
    /\ InRename("Apply", "start")
    /\ Call([Top EXCEPT !.pc = "func"], Frame("rename", Top.arg.expr.func))
    /\ UNCHANGED <<uniques, unique_id, log>>

RenameApplyArg ==
    /\ InRename("Apply", "func")
    /\ Call([Top EXCEPT !.pc = "arg", !.tmp = ret], Frame("rename", Top.arg.expr.arg))
    /\ UNCHANGED <<uniques, unique_id, log>>

RenameApplyReturn ==
    /\ InRename("Apply", "arg")
    /\ Return(Typed(Apply(Top.tmp[1], ret[1]), Top.arg))
    /\ UNCHANGED <<uniques, unique_id, log>>

\* The parameter is bound before the lambda's scope is entered.
RenameLambdaEnter_binds_before_scope ==
    /\ InRename("Lambda", "start")
    /\ LET u == make_unique(Renamer, Top.arg.expr.arg)
       IN  /\ Call([Top EXCEPT !.pc = "body", !.tmp = <<u.name>>],
                   Frame("rename", Top.arg.expr.body))
           /\ SetRenamer(EnterScope(u.r))

RenameLambdaEnter ==
    /\ InRename("Lambda", "start")
    /\ LET u == make_unique(EnterScope(Renamer), Top.arg.expr.arg)
       IN  /\ Call([Top EXCEPT !.pc = "body", !.tmp = <<u.name>>],
                   Frame("rename", Top.arg.expr.body))
           /\ SetRenamer(u.r)

\* The lambda's scope is not left.
RenameLambdaExit_keeps_scope ==
    /\ InRename("Lambda", "body")
    /\ Return(Typed(Lambda(Top.tmp[1], ret[1]), Top.arg))
    /\ UNCHANGED <<uniques, unique_id, log>>

RenameLambdaExit ==
    /\ InRename("Lambda", "body")
    /\ Return(Typed(Lambda(Top.tmp[1], ret[1]), Top.arg))
    /\ SetRenamer(ExitScope(Renamer))

RenameLetEnter ==
    /\ InRename("Let", "start")
    /\ Call([Top EXCEPT !.pc = "bindings"], Frame("rename_bindings", Top.arg.expr.bindings))
    /\ SetRenamer(EnterScope(Renamer))

RenameLetBody ==
    /\ InRename("Let", "bindings")
    /\ Call([Top EXCEPT !.pc = "body", !.tmp = ret], Frame("rename", Top.arg.expr.expr))
    /\ UNCHANGED <<uniques, unique_id, log>>

\* The let's scope is not left.
RenameLetExit_keeps_scope ==
    /\ InRename("Let", "body")
    /\ Return(Typed(Let(Top.tmp[1], ret[1]), Top.arg))
    /\ UNCHANGED <<uniques, unique_id, log>>

RenameLetExit ==
    /\ InRename("Let", "body")
    /\ Return(Typed(Let(Top.tmp[1], ret[1]), Top.arg))
    /\ SetRenamer(ExitScope(Renamer))

\* The alternatives are taken from the last to the first.
RenameCaseAlt_reverse_order ==
    /\ InRename("Case", "start")
    /\ Top.idx <= Len(Top.arg.expr.alts)
    /\ LET alt == Top.arg.expr.alts[Len(Top.arg.expr.alts) + 1 - Top.idx]
           p == rename_pattern(EnterScope(Renamer), alt.pattern.node)
       IN  /\ Call([Top EXCEPT !.pc = "alt",
                               !.tmp = <<Located(alt.pattern.location, p.pattern)>>],
                   Frame("rename", alt.expression))
           /\ SetRenamer(p.r)

RenameCaseAlt ==
    /\ InRename("Case", "start")
    /\ Top.idx <= Len(Top.arg.expr.alts)
    /\ LET alt == Top.arg.expr.alts[Top.idx]
           p == rename_pattern(EnterScope(Renamer), alt.pattern.node)
       IN  /\ Call([Top EXCEPT !.pc = "alt",
                               !.tmp = <<Located(alt.pattern.location, p.pattern)>>],
                   Frame("rename", alt.expression))
           /\ SetRenamer(p.r)

\* The alternative's scope is not left.
RenameCaseAltExit_keeps_scope ==
    /\ InRename("Case", "alt")
    /\ Goto([Top EXCEPT !.pc = "start", !.idx = @ + 1, !.tmp = <<>>,
                        !.acc = Append(@, Alternative(Top.tmp[1], ret[1]))])
    /\ UNCHANGED <<uniques, unique_id, log>>

RenameCaseAltExit ==
    /\ InRename("Case", "alt")
    /\ Goto([Top EXCEPT !.pc = "start", !.idx = @ + 1, !.tmp = <<>>,
                        !.acc = Append(@, Alternative(Top.tmp[1], ret[1]))])
    /\ SetRenamer(ExitScope(Renamer))

RenameCaseScrutinee ==
    /\ InRename("Case", "start")
    /\ Top.idx > Len(Top.arg.expr.alts)
    /\ Call([Top EXCEPT !.pc = "expr"], Frame("rename", Top.arg.expr.expr))
    /\ UNCHANGED <<uniques, unique_id, log>>

RenameCaseReturn ==
    /\ InRename("Case", "expr")
    /\ Return(Typed(Case(ret[1], Top.acc), Top.arg))
    /\ UNCHANGED <<uniques, unique_id, log>>

DoStatement(kind) ==
    /\ InRename("Do", "start")
    /\ Top.idx <= Len(Top.arg.expr.bindings)
    /\ Top.arg.expr.bindings[Top.idx].kind = kind

RenameDoExpr ==
    /\ DoStatement("DoExpr")
    /\ Call([Top EXCEPT !.pc = "bind"], Frame("rename", Top.arg.expr.bindings[Top.idx].expr))
    /\ UNCHANGED <<uniques, unique_id, log>>

RenameDoLet ==
    /\ DoStatement("DoLet")
    /\ Call([Top EXCEPT !.pc = "bind"],
            Frame("rename_bindings", Top.arg.expr.bindings[Top.idx].bindings))
    /\ UNCHANGED <<uniques, unique_id, log>>

\* The pattern of a bind statement is renamed in a scope of its own.
RenameDoBind_own_scope ==
    /\ DoStatement("DoBind")
    /\ LET bind == Top.arg.expr.bindings[Top.idx]
           p == rename_pattern(EnterScope(Renamer), bind.pattern.node)
       IN  /\ Call([Top EXCEPT !.pc = "bind",
                               !.tmp = <<Located(bind.pattern.location, p.pattern)>>],
                   Frame("rename", bind.expr))
           /\ SetRenamer(ExitScope(p.r))

RenameDoBind ==
    /\ DoStatement("DoBind")
    /\ LET bind == Top.arg.expr.bindings[Top.idx]
           p == rename_pattern(Renamer, bind.pattern.node)
       IN  /\ Call([Top EXCEPT !.pc = "bind",
                               !.tmp = <<Located(bind.pattern.location, p.pattern)>>],
                   Frame("rename", bind.expr))
           /\ SetRenamer(p.r)

\* The statement's value, from what its callee returned.
DoBinding(bind, tmp, r) ==
    CASE bind.kind = "DoExpr" -> DoExpr(r)
      [] bind.kind = "DoLet" -> DoLet(r)
      [] bind.kind = "DoBind" -> DoBind(tmp[1], r)

RenameDoCollect ==
    /\ InRename("Do", "bind")
    /\ Goto([Top EXCEPT !.pc = "start", !.idx = @ + 1, !.tmp = <<>>,
                        !.acc = Append(@, DoBinding(Top.arg.expr.bindings[Top.idx], Top.tmp, ret[1]))])
    /\ UNCHANGED <<uniques, unique_id, log>>

RenameDoFinal ==
    /\ InRename("Do", "start")
    /\ Top.idx > Len(Top.arg.expr.bindings)
    /\ Call([Top EXCEPT !.pc = "expr"], Frame("rename", Top.arg.expr.expr))
    /\ UNCHANGED <<uniques, unique_id, log>>

RenameDoReturn ==
    /\ InRename("Do", "expr")
    /\ Return(Typed(Do(Top.acc, ret[1]), Top.arg))
    /\ UNCHANGED <<uniques, unique_id, log>>

(***************************************************************************)
(* rename_bindings                                                         *)
(***************************************************************************)
RenameBindingsRegister ==
    /\ Running("rename_bindings", "start")
    /\ Goto([Top EXCEPT !.pc = "map"])
    /\ SetRenamer(register_bindings(Renamer, Top.arg))

\* The binding's name is allocated again instead of being looked up.
RenameBindingsNext_allocates ==
    /\ Running("rename_bindings", "map")
    /\ Top.idx <= Len(Top.arg)
    /\ LET binding == Top.arg[Top.idx]
           u == make_unique(Renamer, binding.name)
       IN  /\ Call([Top EXCEPT !.pc = "expression", !.tmp = <<u.name>>],
                   Frame("rename", binding.expression))
           /\ SetRenamer(u.r)

\* Lines 34-36 and the call of line 39; a failed expect ends the pass.
RenameBindingsNext ==
    /\ Running("rename_bindings", "map")
    /\ Top.idx <= Len(Top.arg)
    /\ LET binding == Top.arg[Top.idx]
           n == find(uniques, binding.name)
       IN  IF n.some
           THEN Call([Top EXCEPT !.pc = "expression", !.tmp = <<n.value>>],
                     Frame("rename", binding.expression))
           ELSE /\ status' = "panicked"
                /\ UNCHANGED <<input, stack, ret, passes>>
    /\ UNCHANGED <<uniques, unique_id, log>>

RenameBindingsCollect ==
    /\ Running("rename_bindings", "expression")
    /\ LET binding == Top.arg[Top.idx]
       IN  Goto([Top EXCEPT !.pc = "map", !.idx = @ + 1, !.tmp = <<>>,
                            !.acc = Append(@, Binding(Top.tmp[1], ret[1],
                                                      binding.typeDecl, binding.arity))])
    /\ UNCHANGED <<uniques, unique_id, log>>

RenameBindingsReturn ==
    /\ Running("rename_bindings", "map")
    /\ Top.idx > Len(Top.arg)
    /\ Return(Top.acc)
    /\ UNCHANGED <<uniques, unique_id, log>>

(***************************************************************************)
(* rename_binding                                                          *)
(***************************************************************************)
RenameBindingCall ==
    /\ Running("rename_binding", "start")
    /\ Call([Top EXCEPT !.pc = "expression"], Frame("rename", Top.arg.expression))
    /\ UNCHANGED <<uniques, unique_id, log>>

\* The binding's name is allocated like a local one.
RenameBindingReturn_allocates ==
    /\ Running("rename_binding", "expression")
    /\ LET u == make_unique(Renamer, Top.arg.name)
       IN  /\ Return(Binding(u.name, ret[1], Top.arg.typeDecl, Top.arg.arity))
           /\ SetRenamer(u.r)

RenameBindingReturn ==
    /\ Running("rename_binding", "expression")
    /\ Return(Binding(Name(Top.arg.name, 0), ret[1], Top.arg.typeDecl, Top.arg.arity))
    /\ UNCHANGED <<uniques, unique_id, log>>

(***************************************************************************)
(* rename_module, after the data definitions.  tmp holds                   *)
(* data_definitions2 and then instances2; acc2 the bindings of the         *)
(* instance being mapped.                                                  *)
(***************************************************************************)
ModuleInstanceBinding ==
    /\ Running("rename_module", "instances")
    /\ Top.idx <= Len(Top.arg.instances)
    /\ Top.jdx <= Len(Top.arg.instances[Top.idx].bindings)
    /\ Call([Top EXCEPT !.pc = "instance_binding"],
            Frame("rename_binding", Top.arg.instances[Top.idx].bindings[Top.jdx]))
    /\ UNCHANGED <<uniques, unique_id, log>>

ModuleInstanceBindingCollect ==
    /\ Running("rename_module", "instance_binding")
    /\ Goto([Top EXCEPT !.pc = "instances", !.jdx = @ + 1, !.acc2 = Append(@, ret[1])])
    /\ UNCHANGED <<uniques, unique_id, log>>

ModuleInstance ==
    /\ Running("rename_module", "instances")
    /\ Top.idx <= Len(Top.arg.instances)
    /\ Top.jdx > Len(Top.arg.instances[Top.idx].bindings)
    /\ LET instance == Top.arg.instances[Top.idx]
       IN  Goto([Top EXCEPT !.idx = @ + 1, !.jdx = 1, !.acc2 = <<>>,
                            !.acc = Append(@, Instance(Top.acc2, instance.constraints,
                                                       instance.typ, instance.classname))])
    /\ UNCHANGED <<uniques, unique_id, log>>

ModuleInstancesCollect ==
    /\ Running("rename_module", "instances")
    /\ Top.idx > Len(Top.arg.instances)
    /\ Goto([Top EXCEPT !.pc = "bindings", !.idx = 1, !.acc = <<>>, !.tmp = Append(@, Top.acc)])
    /\ UNCHANGED <<uniques, unique_id, log>>

ModuleBinding ==
    /\ Running("rename_module", "bindings")
    /\ Top.idx <= Len(Top.arg.bindings)
    /\ Call([Top EXCEPT !.pc = "binding"], Frame("rename_binding", Top.arg.bindings[Top.idx]))
    /\ UNCHANGED <<uniques, unique_id, log>>

ModuleBindingCollect ==
    /\ Running("rename_module", "binding")
    /\ Goto([Top EXCEPT !.pc = "bindings", !.idx = @ + 1, !.acc = Append(@, ret[1])])
    /\ UNCHANGED <<uniques, unique_id, log>>

\* The module's name takes the counter's value without advancing it.
ModuleReturn_reuses_counter ==
    /\ Running("rename_module", "bindings")
    /\ Top.idx > Len(Top.arg.bindings)
    /\ LET u == Name(Top.arg.name, unique_id)
       IN  /\ Return(Module(u, Top.arg.classes, Top.tmp[1], Top.arg.typeDeclarations,
                            Top.acc, Top.tmp[2]))
           /\ SetRenamer(Logged([Renamer EXCEPT !.uniques = insert(@, Top.arg.name, u)],
                                [op |-> "make_unique", name |-> u]))

\* Lines 198-205: the module's name is made unique when the result is built.
ModuleReturn ==
    /\ Running("rename_module", "bindings")
    /\ Top.idx > Len(Top.arg.bindings)
    /\ LET u == make_unique(Renamer, Top.arg.name)
       IN  /\ Return(Module(u.name, Top.arg.classes, Top.tmp[1], Top.arg.typeDeclarations,
                            Top.acc, Top.tmp[2]))
           /\ SetRenamer(u.r)

Next ==
    \/ rename_expr
    \/ rename_module
    \/ RenameLiteral
    \/ RenameIdentifier
    \/ RenameApplyFunc
    \/ RenameApplyArg
    \/ RenameApplyReturn
    \/ RenameLambdaEnter
    \/ RenameLambdaExit
    \/ RenameLetEnter
    \/ RenameLetBody
    \/ RenameLetExit
    \/ RenameCaseAlt
    \/ RenameCaseAltExit
    \/ RenameCaseScrutinee
    \/ RenameCaseReturn
    \/ RenameDoExpr
    \/ RenameDoLet
    \/ RenameDoBind
    \/ RenameDoCollect
    \/ RenameDoFinal
    \/ RenameDoReturn
    \/ RenameBindingsRegister
    \/ RenameBindingsNext
    \/ RenameBindingsCollect
    \/ RenameBindingsReturn
    \/ RenameBindingCall
    \/ RenameBindingReturn
    \/ ModuleInstanceBinding
    \/ ModuleInstanceBindingCollect
    \/ ModuleInstance
    \/ ModuleInstancesCollect
    \/ ModuleBinding
    \/ ModuleBindingCollect
    \/ ModuleReturn

Spec == Init /\ [][Next]_vars

\* The entry points called again and again.
PassesNext ==
    \/ Next
    \/ rename_expr_again
    \/ rename_module_again

PassesSpec == Init /\ [][PassesNext]_vars

\* The result of a finished pass.
Done == status = "done"

Output == ret[1]

(***************************************************************************)
(* Reading a renamed tree and the history.                                 *)
(***************************************************************************)
Range(f) == {f[i] : i \in 1..Len(f)}

IsModule(m) == "instances" \in DOMAIN m

\* The calls of make_unique so far, in order, as the Names they returned.
Issued ==
    LET calls == SelectSeq(log, LAMBDA ev : ev.op = "make_unique")
    IN  [i \in 1..Len(calls) |-> calls[i].name]

\* The expressions directly below a statement of a do-block, and below a node.
StatementExprs(st) ==
    CASE st.kind = "DoExpr" -> {st.expr}
      [] st.kind = "DoLet" -> {b.expression : b \in Range(st.bindings)}
      [] st.kind = "DoBind" -> {st.expr}

Children(e) ==
    LET x == e.expr
    IN  CASE x.kind = "Apply" -> {x.func, x.arg}
          [] x.kind = "Lambda" -> {x.body}
          [] x.kind = "Let" -> {b.expression : b \in Range(x.bindings)} \cup {x.expr}
          [] x.kind = "Case" -> {x.expr} \cup {a.expression : a \in Range(x.alts)}
          [] x.kind = "Do" -> UNION {StatementExprs(st) : st \in Range(x.bindings)} \cup {x.expr}
          [] OTHER -> {}

RECURSIVE SubExprs(_), PatternNames(_), PatternConstructors(_)

\* Every node of e, e included.
SubExprs(e) == {e} \cup UNION {SubExprs(c) : c \in Children(e)}

\* The names a pattern binds, and the constructor names it mentions.
PatternNames(p) ==
    CASE p.kind = "IdentifierPattern" -> {p.name}
      [] p.kind = "ConstructorPattern" -> UNION {PatternNames(q) : q \in Range(p.patterns)}
      [] OTHER -> {}

PatternConstructors(p) ==
    CASE p.kind = "ConstructorPattern" ->
            {p.name} \cup UNION {PatternConstructors(q) : q \in Range(p.patterns)}
      [] OTHER -> {}

\* The names the statements of a do-block bind.
StatementNames(st) ==
    CASE st.kind = "DoLet" -> {b.name : b \in Range(st.bindings)}
      [] st.kind = "DoBind" -> PatternNames(st.pattern.node)
      [] OTHER -> {}

\* The names bound at node n itself.
NodeBinders(n) ==
    LET x == n.expr
    IN  CASE x.kind = "Lambda" -> {x.arg}
          [] x.kind = "Let" -> {b.name : b \in Range(x.bindings)}
          [] x.kind = "Case" -> UNION {PatternNames(a.pattern.node) : a \in Range(x.alts)}
          [] x.kind = "Do" -> UNION {StatementNames(st) : st \in Range(x.bindings)}
          [] OTHER -> {}

\* Every name bound in e, and every name an identifier of e refers to.
Binders(e) == UNION {NodeBinders(n) : n \in SubExprs(e)}

Refs(e) == {n.expr.name : n \in {m \in SubExprs(e) : m.expr.kind = "Identifier"}}

\* The bindings rename_module renames, in the order it renames them.
RECURSIVE InstanceBindings(_)

InstanceBindings(is) ==
    IF is = <<>> THEN <<>> ELSE Head(is).bindings \o InstanceBindings(Tail(is))

ModuleBindingsOf(m) == InstanceBindings(m.instances) \o m.bindings

\* The expressions of the result: the renamed expression, or the expressions
\* of the renamed module's bindings.
OutputRoots ==
    IF IsModule(Output) THEN {b.expression : b \in Range(ModuleBindingsOf(Output))}
    ELSE {Output}

OutputNodes == UNION {SubExprs(e) : e \in OutputRoots}

(***************************************************************************)
(* C1  Within one pass the positive uids make_unique issues are pairwise   *)
(* distinct, and the first one issued is 2: the counter starts at 1 and is *)
(* incremented before it is used.                                          *)
(***************************************************************************)
C1_UniqueUids ==
    /\ \A i, j \in 1..Len(Issued) : i # j => Issued[i].uid # Issued[j].uid
    /\ \A i \in 1..Len(Issued) : Issued[i].uid > 1
    /\ Issued # <<>> => Issued[1].uid = 2

\* A pass that has issued three uids, for a lambda, a pattern and a let.
C1_Witness ==
    /\ Done
    /\ Len(Issued) >= 3
    /\ \E n \in OutputNodes : n.expr.kind = "Lambda"

(***************************************************************************)
(* Lexical scoping, read off a renamed tree.                               *)
(***************************************************************************)
SymbolsOf(names) == {n.name : n \in names}

\* The constructs of node n that enter a scope: what each binds, and the
\* expressions renamed inside its scope.
ScopesOf(n) ==
    LET x == n.expr
    IN  CASE x.kind = "Lambda" ->
                {[node |-> n, names |-> {x.arg}, region |-> {x.body}]}
          [] x.kind = "Let" ->
                {[node |-> n, names |-> {b.name : b \in Range(x.bindings)},
                  region |-> {b.expression : b \in Range(x.bindings)} \cup {x.expr}]}
          [] x.kind = "Case" ->
                {[node |-> n, names |-> PatternNames(a.pattern.node),
                  region |-> {a.expression}] : a \in Range(x.alts)}
          [] OTHER -> {}

OutputScopes == UNION {ScopesOf(n) : n \in OutputNodes}

\* The uid a scope gives symbol s: the one inserted last.
ScopeUid(scope, s) ==
    LET uids == {n.uid : n \in {m \in scope.names : m.name = s}}
    IN  CHOOSE u \in uids : \A v \in uids : v <= u

RegionNodes(scope) == UNION {SubExprs(e) : e \in scope.region}

RegionRefs(scope, s) == {n \in UNION {Refs(e) : e \in scope.region} : n.name = s}

RECURSIVE LexItems(_, _, _)

\* What a walk through e meets of symbol s when it stays out of every Lambda,
\* Let and alternative that binds s again: <<"ref", uid>> for an identifier,
\* <<"bind", uid>> for a binding by a statement of a do-block.  With doScoped
\* the walk stays out of the do-blocks that bind s, too.
LexItems(e, s, doScoped) ==
    LET x == e.expr
        below == UNION {LexItems(c, s, doScoped) : c \in Children(e)}
    IN  CASE x.kind = "Identifier" ->
                IF x.name.name = s THEN {<<"ref", x.name.uid>>} ELSE {}
          [] x.kind = "Lambda" ->
                IF x.arg.name = s THEN {} ELSE below
          [] x.kind = "Let" ->
                IF \E b \in Range(x.bindings) : b.name.name = s THEN {} ELSE below
          [] x.kind = "Case" ->
                LexItems(x.expr, s, doScoped)
                \cup UNION {IF s \in SymbolsOf(PatternNames(a.pattern.node)) THEN {}
                            ELSE LexItems(a.expression, s, doScoped) : a \in Range(x.alts)}
          [] x.kind = "Do" ->
                LET binds == {n \in NodeBinders(e) : n.name = s}
                IN  IF doScoped /\ binds # {} THEN {}
                    ELSE {<<"bind", n.uid>> : n \in binds} \cup below
          [] OTHER -> below

ScopeItems(scope, s, doScoped) == UNION {LexItems(e, s, doScoped) : e \in scope.region}

ItemRefs(items) == {it[2] : it \in {i \in items : i[1] = "ref"}}

ItemBinds(items) == {it[2] : it \in {i \in items : i[1] = "bind"}}

(***************************************************************************)
(* C2  Shadowing.  As claimed: for nested binding constructs that bind the *)
(* same symbol, a reference inside the inner construct resolves to the     *)
(* inner binding and never to the outer one, and once the inner construct  *)
(* has been left a reference in the outer construct's body resolves to the *)
(* outer binding again.  That is: the references to s in the scope of a    *)
(* Lambda, Let or alternative binding s, outside every construct nested in *)
(* it that binds s again (do-blocks included), carry that construct's uid. *)
(***************************************************************************)
C2_Original ==
    Done =>
        \A scope \in OutputScopes : \A s \in SymbolsOf(scope.names) :
            \A u \in ItemRefs(ScopeItems(scope, s, TRUE)) : u = ScopeUid(scope, s)

(***************************************************************************)
(* C2 as amended: the same for the nested Lambda, Let and alternative      *)
(* constructs, unless a statement of a do-block has bound s in the         *)
(* construct's own frame; and in every case no reference inside an inner   *)
(* construct that binds s carries the uid of an outer construct's s.       *)
(***************************************************************************)
C2_Shadowing ==
    Done =>
        \A scope \in OutputScopes : \A s \in SymbolsOf(scope.names) :
            /\ ItemBinds(ScopeItems(scope, s, FALSE)) = {} =>
                  \A u \in ItemRefs(ScopeItems(scope, s, FALSE)) : u = ScopeUid(scope, s)
            /\ \A inner \in OutputScopes :
                  (inner.node \in RegionNodes(scope) /\ s \in SymbolsOf(inner.names)) =>
                      \A n \in RegionRefs(inner, s) : n.uid # ScopeUid(scope, s)

\* lambda x -> apply(lambda x -> x, x): a reference inside the inner lambda and
\* one in the outer body after it.
C2_Witness ==
    /\ Done
    /\ \E scope \in OutputScopes : \E s \in SymbolsOf(scope.names) :
          /\ ItemBinds(ScopeItems(scope, s, FALSE)) = {}
          /\ ItemRefs(ScopeItems(scope, s, FALSE)) # {}
          /\ \E inner \in OutputScopes :
                /\ inner.node \in RegionNodes(scope)
                /\ s \in SymbolsOf(inner.names)
                /\ RegionRefs(inner, s) # {}
                /\ inner.node.expr.kind = "Lambda"
                /\ scope.node.expr.kind = "Lambda"

(***************************************************************************)
(* C3  Letrec visibility.  As claimed: for every Let group, every          *)
(* reference to a name of the group in a binding expression of the group   *)
(* or in the let body, outside every inner construct that binds the symbol *)
(* again, carries the uid this binding's name carries in the output.       *)
(***************************************************************************)
LetScopes == {scope \in OutputScopes : scope.node.expr.kind = "Let"}

C3_Original ==
    Done =>
        \A scope \in LetScopes : \A b \in Range(scope.node.expr.bindings) :
            \A u \in ItemRefs(ScopeItems(scope, b.name.name, TRUE)) : u = b.name.uid

(***************************************************************************)
(* C3 as amended: the same, for the names of the group that no statement   *)
(* of a do-block binds again in the group's own frame.                     *)
(***************************************************************************)
C3_LetrecVisibility ==
    Done =>
        \A scope \in LetScopes : \A b \in Range(scope.node.expr.bindings) :
            ItemBinds(ScopeItems(scope, b.name.name, FALSE)) = {} =>
                \A u \in ItemRefs(ScopeItems(scope, b.name.name, FALSE)) : u = b.name.uid

\* A group of two bindings whose first expression refers to the second name,
\* forward, and whose body refers to it too.
C3_Witness ==
    /\ Done
    /\ \E scope \in LetScopes :
          LET bs == scope.node.expr.bindings
          IN  /\ Len(bs) >= 2
              /\ bs[1].name.name # bs[2].name.name
              /\ ItemBinds(ScopeItems(scope, bs[2].name.name, FALSE)) = {}
              /\ bs[2].name.uid > 0
              /\ bs[2].name.uid \in ItemRefs(LexItems(bs[1].expression, bs[2].name.name, FALSE))
              /\ bs[2].name.uid \in ItemRefs(LexItems(scope.node.expr.expr, bs[2].name.name, FALSE))

(***************************************************************************)
(* C4  Global fallback.  An identifier whose symbol no frame of the scope  *)
(* table holds when it is resolved is renamed to Name{symbol, uid 0}, and  *)
(* resolving it changes neither the scope table nor the counter; and an    *)
(* identifier whose symbol nothing in the input binds carries uid 0, so    *)
(* two such references to one symbol carry equal Names.                    *)
(***************************************************************************)
Unresolved ==
    /\ InRename("Identifier", "start")
    /\ ~find(uniques, Top.arg.expr.name).some

FallbackStep ==
    Unresolved =>
        /\ ret' = <<Typed(Identifier(Name(Top.arg.expr.name, 0)), Top.arg)>>
        /\ uniques' = uniques
        /\ unique_id' = unique_id

\* The symbols bound anywhere in the result.
OutputBinders == UNION {Binders(e) : e \in OutputRoots}

Uids(names) == {n.uid : n \in names}

CaseNodes == {n \in OutputNodes : n.expr.kind = "Case"}

AltBinders(a) == PatternNames(a.pattern.node) \cup Binders(a.expression)

\* The number of scopes open after the first k calls of the history.
Depth(k) ==
    Cardinality({i \in 1..k : log[i].op = "enter_scope"})
        - Cardinality({i \in 1..k : log[i].op = "exit_scope"})

ResolvedInScope ==
    \A q \in 1..Len(log) :
        (log[q].op = "get_name" /\ log[q].name.uid > 0) =>
            \E p \in 1..(q - 1) :
                /\ log[p].op = "make_unique"
                /\ log[p].name = log[q].name
                /\ \A k \in p..q : Depth(k) >= Depth(p)

C5_CaseIsolation ==
    Done =>
        /\ \A c \in CaseNodes : \A i \in 1..Len(c.expr.alts) :
              /\ \A j \in 1..Len(c.expr.alts) :
                    i # j => Uids(AltBinders(c.expr.alts[i]))
                                \cap Uids(Refs(c.expr.alts[j].expression)) = {}
              /\ Uids(AltBinders(c.expr.alts[i])) \cap Uids(Refs(c.expr.expr)) = {}
              /\ Uids(Binders(c.expr.expr)) \cap Uids(Refs(c.expr.alts[i].expression)) = {}
        /\ ResolvedInScope

\* Two alternatives, the first binding a symbol the second refers to.
C5_Witness ==
    /\ Done
    /\ \E c \in CaseNodes : \E i, j \in 1..Len(c.expr.alts) :
          /\ i < j
          /\ \E b \in PatternNames(c.expr.alts[i].pattern.node) :
                \E n \in Refs(c.expr.alts[j].expression) :
                    b.name = n.name /\ b.uid # n.uid

(***************************************************************************)
(* The uid each identifier of a renamed tree is due, for one symbol s.     *)
(* A walk carries cur, the uid a reference to s is due where the walk      *)
(* stands (0: no binding, Unknown: not determined by the tree), through    *)
(* the tree in a given order; a Lambda, a Let and an alternative give cur  *)
(* back when they end, a do-block does not.  textual walks a Case in the   *)
(* order it is written, scrutinee first; otherwise in the order of lines   *)
(* 69-78, alternatives first and each from the cur the Case was entered    *)
(* with.                                                                   *)
(***************************************************************************)
Unknown == 0 - 1

MaxUid(names, s) ==
    LET uids == {n.uid : n \in {m \in names : m.name = s}}
    IN  CHOOSE u \in uids : \A v \in uids : v <= u

\* cur once a group of bindings is registered: the uid of its binding of s,
\* which the tree shows unless a statement of a do-block inside the group
\* binds s as well.
GroupCur(bs, s, cur) ==
    LET names == {b.name : b \in Range(bs)}
    IN  IF s \notin SymbolsOf(names) THEN cur
        ELSE IF \E b \in Range(bs) : ItemBinds(LexItems(b.expression, s, FALSE)) # {}
             THEN Unknown
             ELSE MaxUid(names, s)

PatternCur(p, s, cur) ==
    IF s \in SymbolsOf(PatternNames(p)) THEN MaxUid(PatternNames(p), s) ELSE cur

BindingExprs(bs) == [i \in 1..Len(bs) |-> bs[i].expression]

RECURSIVE Walk(_, _, _, _), WalkSeq(_, _, _, _), WalkStmts(_, _, _, _), WalkAlts(_, _, _, _)

Walk(e, s, cur, textual) ==
    LET x == e.expr
    IN  CASE x.kind = "Identifier" ->
                [ok |-> x.name.name # s \/ cur = Unknown \/ x.name.uid = cur, cur |-> cur]
          [] x.kind = "Apply" -> WalkSeq(<<x.func, x.arg>>, s, cur, textual)
          [] x.kind = "Lambda" ->
                [ok |-> Walk(x.body, s, IF x.arg.name = s THEN x.arg.uid ELSE cur, textual).ok,
                 cur |-> cur]
          [] x.kind = "Let" ->
                [ok |-> WalkSeq(Append(BindingExprs(x.bindings), x.expr), s,
                                GroupCur(x.bindings, s, cur), textual).ok,
                 cur |-> cur]
          [] x.kind = "Case" ->
                IF textual
                THEN LET scrutinee == Walk(x.expr, s, cur, textual)
                     IN  [ok |-> scrutinee.ok /\ WalkAlts(x.alts, s, scrutinee.cur, textual),
                          cur |-> scrutinee.cur]
                ELSE LET scrutinee == Walk(x.expr, s, cur, textual)
                     IN  [ok |-> WalkAlts(x.alts, s, cur, textual) /\ scrutinee.ok,
                          cur |-> scrutinee.cur]
          [] x.kind = "Do" ->
                LET stmts == WalkStmts(x.bindings, s, cur, textual)
                    final == Walk(x.expr, s, stmts.cur, textual)
                IN  [ok |-> stmts.ok /\ final.ok, cur |-> final.cur]
          [] OTHER -> [ok |-> TRUE, cur |-> cur]

WalkSeq(es, s, cur, textual) ==
    IF es = <<>> THEN [ok |-> TRUE, cur |-> cur]
    ELSE LET first == Walk(Head(es), s, cur, textual)
             rest == WalkSeq(Tail(es), s, first.cur, textual)
         IN  [ok |-> first.ok /\ rest.ok, cur |-> rest.cur]

WalkAlts(as, s, cur, textual) ==
    \A a \in Range(as) :
        Walk(a.expression, s, PatternCur(a.pattern.node, s, cur), textual).ok

WalkStmts(sts, s, cur, textual) ==
    IF sts = <<>> THEN [ok |-> TRUE, cur |-> cur]
    ELSE LET st == Head(sts)
             first ==
                 CASE st.kind = "DoExpr" -> Walk(st.expr, s, cur, textual)
                   [] st.kind = "DoLet" ->
                         WalkSeq(BindingExprs(st.bindings), s,
                                 GroupCur(st.bindings, s, cur), textual)
                   [] st.kind = "DoBind" ->
                         Walk(st.expr, s, PatternCur(st.pattern.node, s, cur), textual)
             rest == WalkStmts(Tail(sts), s, first.cur, textual)
         IN  [ok |-> first.ok /\ rest.ok, cur |-> rest.cur]

\* The expressions of the result in the order they were renamed.
OutputSeq ==
    IF IsModule(Output) THEN BindingExprs(ModuleBindingsOf(Output)) ELSE <<Output>>

(***************************************************************************)
(* C6  Do-block leak.  As claimed: a binding a statement of a do-block     *)
(* introduces goes into the frame current at the do-block and is the       *)
(* resolution of the references to its symbol in the later statements, in  *)
(* the final expression and in every expression of the enclosing scope     *)
(* that follows the do-block, until the enclosing construct ends.          *)
(***************************************************************************)
C6_Original ==
    Done => \A s \in Symbols : WalkSeq(OutputSeq, s, 0, TRUE).ok

(***************************************************************************)
(* C6 as amended: no step of a do-block pushes or pops a frame, and the    *)
(* binding is the resolution of the references to its symbol in whatever   *)
(* is renamed after the statement and before the enclosing frame is        *)
(* exited; the alternatives of a Case are renamed before its scrutinee, so *)
(* they do not see what a do-block of the scrutinee binds.                 *)
(***************************************************************************)
DoStep ==
    (status = "running" /\ Top.fn = "rename" /\ Top.arg.expr.kind = "Do")
        => Len(uniques') = Len(uniques)

C6_DoLeak ==
    /\ [][DoStep]_vars
    /\ [](Done => \A s \in Symbols : WalkSeq(OutputSeq, s, 0, FALSE).ok)

\* A lambda whose body holds a do-block binding s and, after the do-block, a
\* reference to s that carries the do-block's uid.
DoBinders(e) ==
    UNION {NodeBinders(n) : n \in {m \in SubExprs(e) : m.expr.kind = "Do"}}

C6_Witness ==
    /\ Done
    /\ \E n \in OutputNodes :
          /\ n.expr.kind = "Lambda"
          /\ n.expr.body.expr.kind = "Apply"
          /\ \E b \in DoBinders(n.expr.body.expr.func) :
                b \in Refs(n.expr.body.expr.arg)

(***************************************************************************)
(* The uid make_unique hands each binding occurrence, read off the shape   *)
(* of the tree alone: a walk in the order of renaming carries n, the       *)
(* counter, and adds one for every lambda parameter, every binding of a    *)
(* group and every identifier pattern.  ok tells whether the name of every *)
(* binding of every Let carries the uid its registration allocated.        *)
(***************************************************************************)
RECURSIVE PatternCount(_), PatternsCount(_)

PatternCount(p) ==
    CASE p.kind = "IdentifierPattern" -> 1
      [] p.kind = "ConstructorPattern" -> PatternsCount(p.patterns)
      [] OTHER -> 0

PatternsCount(ps) ==
    IF ps = <<>> THEN 0 ELSE PatternCount(Head(ps)) + PatternsCount(Tail(ps))

RECURSIVE Alloc(_, _), AllocSeq(_, _), AllocAlts(_, _), AllocStmts(_, _)

Alloc(e, n) ==
    LET x == e.expr
    IN  CASE x.kind = "Apply" -> AllocSeq(<<x.func, x.arg>>, n)
          [] x.kind = "Lambda" -> Alloc(x.body, n + 1)
          [] x.kind = "Let" ->
                LET rest == AllocSeq(Append(BindingExprs(x.bindings), x.expr),
                                     n + Len(x.bindings))
                IN  [ok |-> /\ \A k \in 1..Len(x.bindings) : x.bindings[k].name.uid = n + k
                            /\ rest.ok,
                     n |-> rest.n]
          [] x.kind = "Case" ->
                LET alts == AllocAlts(x.alts, n)
                    scrutinee == Alloc(x.expr, alts.n)
                IN  [ok |-> alts.ok /\ scrutinee.ok, n |-> scrutinee.n]
          [] x.kind = "Do" ->
                LET stmts == AllocStmts(x.bindings, n)
                    final == Alloc(x.expr, stmts.n)
                IN  [ok |-> stmts.ok /\ final.ok, n |-> final.n]
          [] OTHER -> [ok |-> TRUE, n |-> n]

AllocSeq(es, n) ==
    IF es = <<>> THEN [ok |-> TRUE, n |-> n]
    ELSE LET first == Alloc(Head(es), n)
             rest == AllocSeq(Tail(es), first.n)
         IN  [ok |-> first.ok /\ rest.ok, n |-> rest.n]

AllocAlts(as, n) ==
    IF as = <<>> THEN [ok |-> TRUE, n |-> n]
    ELSE LET first == Alloc(Head(as).expression, n + PatternCount(Head(as).pattern.node))
             rest == AllocAlts(Tail(as), first.n)
         IN  [ok |-> first.ok /\ rest.ok, n |-> rest.n]

AllocStmts(sts, n) ==
    IF sts = <<>> THEN [ok |-> TRUE, n |-> n]
    ELSE LET st == Head(sts)
             first ==
                 CASE st.kind = "DoExpr" -> Alloc(st.expr, n)
                   [] st.kind = "DoLet" ->
                         AllocSeq(BindingExprs(st.bindings), n + Len(st.bindings))
                   [] st.kind = "DoBind" ->
                         Alloc(st.expr, n + PatternCount(st.pattern.node))
             rest == AllocStmts(Tail(sts), first.n)
         IN  [ok |-> first.ok /\ rest.ok, n |-> rest.n]

(***************************************************************************)
(* C7  As claimed: in the output of a pass any two distinct local binding  *)
(* occurrences (lambda parameters, names of let and do-let bindings,       *)
(* identifier patterns) carry different uids, so there are as many uids on *)
(* the binding occurrences as there are occurrences; and the name of every *)
(* Let binding is the Name registered for it in its own group.             *)
(***************************************************************************)
C7_Original ==
    Done =>
        LET allocated == AllocSeq(OutputSeq, InitialUniqueId)
        IN  /\ Cardinality(Uids(OutputBinders)) = allocated.n - InitialUniqueId
            /\ allocated.ok

(***************************************************************************)
(* C8  Constructor identity.  The constructor name of every constructor    *)
(* pattern and of every data-definition constructor of the result carries  *)
(* uid 0, whatever is in scope; no entry of the scope table holds a Name   *)
(* of uid 0; and renaming a pattern advances the counter by the number of  *)
(* its identifier patterns only, renaming the data definitions not at all. *)
(***************************************************************************)
OutputPatterns ==
    UNION {IF n.expr.kind = "Case" THEN {a.pattern.node : a \in Range(n.expr.alts)}
           ELSE IF n.expr.kind = "Do"
                THEN {st.pattern.node :
                        st \in {t \in Range(n.expr.bindings) : t.kind = "DoBind"}}
                ELSE {} : n \in OutputNodes}

OutputConstructors ==
    IF IsModule(Output)
    THEN UNION {{c.name : c \in Range(d.constructors)} : d \in Range(Output.dataDefinitions)}
    ELSE {}

TableEntries == UNION {uniques[i] : i \in 1..Len(uniques)}

PatternStep ==
    /\ (InRename("Case", "start") /\ Top.idx <= Len(Top.arg.expr.alts)) =>
          unique_id' = unique_id + PatternCount(Top.arg.expr.alts[Top.idx].pattern.node)
    /\ (InRename("Do", "start") /\ Top.idx <= Len(Top.arg.expr.bindings)
            /\ Top.arg.expr.bindings[Top.idx].kind = "DoBind") =>
          unique_id' = unique_id + PatternCount(Top.arg.expr.bindings[Top.idx].pattern.node)
    /\ status = "idle" => (unique_id' = InitialUniqueId /\ uniques' = ScopedMapNew)

C8_ConstructorIdentity ==
    /\ [][PatternStep]_vars
    /\ [](\A entry \in TableEntries : entry.value.uid > 0)
    /\ [](Done =>
            /\ \A p \in OutputPatterns : \A c \in PatternConstructors(p) : c.uid = 0
            /\ \A c \in OutputConstructors : c.uid = 0)

\* A constructor pattern renamed while a lambda's binding of the constructor's
\* symbol is in scope.
C8_Witness ==
    /\ InRename("Case", "alt")
    /\ \E c \in PatternConstructors(Top.tmp[1].node) :
          /\ c.uid = 0
          /\ \E i \in 1..(Len(uniques) - 1) : \E entry \in uniques[i] : entry.key = c.name

(***************************************************************************)
(* C9  Round-trip structure.  Replacing every Name of the result by its    *)
(* symbol gives back the input: the same nodes, children, bindings,        *)
(* statements and alternatives in the same order, with the same types,     *)
(* locations, type declarations and arities.                               *)
(***************************************************************************)
RECURSIVE Erase(_), ErasePattern(_), EraseBindings(_), EraseStatement(_)

ErasePattern(p) ==
    CASE p.kind = "IdentifierPattern" -> IdentifierPattern(p.name.name)
      [] p.kind = "ConstructorPattern" ->
            ConstructorPattern(p.name.name,
                               [i \in 1..Len(p.patterns) |-> ErasePattern(p.patterns[i])])
      [] OTHER -> p

EraseBindings(bs) ==
    [i \in 1..Len(bs) |->
        Binding(bs[i].name.name, Erase(bs[i].expression), bs[i].typeDecl, bs[i].arity)]

EraseStatement(st) ==
    CASE st.kind = "DoExpr" -> DoExpr(Erase(st.expr))
      [] st.kind = "DoLet" -> DoLet(EraseBindings(st.bindings))
      [] st.kind = "DoBind" ->
            DoBind(Located(st.pattern.location, ErasePattern(st.pattern.node)), Erase(st.expr))

Erase(e) ==
    LET x == e.expr
        y == CASE x.kind = "Identifier" -> Identifier(x.name.name)
               [] x.kind = "Apply" -> Apply(Erase(x.func), Erase(x.arg))
               [] x.kind = "Lambda" -> Lambda(x.arg.name, Erase(x.body))
               [] x.kind = "Let" -> Let(EraseBindings(x.bindings), Erase(x.expr))
               [] x.kind = "Case" ->
                     Case(Erase(x.expr),
                          [i \in 1..Len(x.alts) |->
                              Alternative(Located(x.alts[i].pattern.location,
                                                  ErasePattern(x.alts[i].pattern.node)),
                                          Erase(x.alts[i].expression))])
               [] x.kind = "Do" ->
                     Do([i \in 1..Len(x.bindings) |-> EraseStatement(x.bindings[i])],
                        Erase(x.expr))
               [] OTHER -> x
    IN  TypedExpr(y, e.typ, e.location)

EraseModule(m) ==
    Module(m.name.name, m.classes,
           [i \in 1..Len(m.dataDefinitions) |->
               LET d == m.dataDefinitions[i]
               IN  DataDefinition(
                       [j \in 1..Len(d.constructors) |->
                           LET c == d.constructors[j]
                           IN  Constructor(c.name.name, c.typ, c.tag, c.arity)],
                       d.typ, d.parameters)],
           m.typeDeclarations,
           EraseBindings(m.bindings),
           [i \in 1..Len(m.instances) |->
               LET inst == m.instances[i]
               IN  Instance(EraseBindings(inst.bindings), inst.constraints,
                            inst.typ, inst.classname)])

Erased == IF IsModule(Output) THEN EraseModule(Output) ELSE Erase(Output)

C9_RoundTrip == Done => Erased = input[1]

\* A result with uids issued in it and nodes of two types.
C9_Witness ==
    /\ Done
    /\ Len(Issued) >= 2
    /\ \E m, n \in OutputNodes : m.typ # n.typ
    /\ \E n \in OutputNodes : n.expr.kind \in {"Let", "Case", "Do"}

(***************************************************************************)
(* C10  As claimed: in rename_module the name of every top-level and       *)
(* instance binding carries uid 0 and renaming a binding's name changes    *)
(* neither the scope table nor the counter, and every binding is renamed   *)
(* independently: its identifiers carry the uids they are due when its     *)
(* expression is renamed alone, from an empty scope table.                 *)
(***************************************************************************)
ModuleExprs == BindingExprs(ModuleBindingsOf(Output))

BindingNames ==
    \A b \in Range(ModuleBindingsOf(Output)) :
        /\ b.name.uid = 0
        /\ \A entry \in TableEntries : entry.value # b.name

BindingStep ==
    (status = "running" /\ Top.fn = "rename_binding")
        => (uniques' = uniques /\ unique_id' = unique_id)

C10_Original ==
    /\ [][BindingStep]_vars
    /\ []((Done /\ IsModule(Output)) =>
            /\ BindingNames
            /\ \A k \in 1..Len(ModuleExprs) : \A s \in Symbols :
                  Walk(ModuleExprs[k], s, 0, FALSE).ok)

(***************************************************************************)
(* C10 as amended: the names as claimed; a binding's identifiers carry the *)
(* uids they are due when the bindings renamed before it are taken into    *)
(* account, whose do-block statements leave their bindings in the          *)
(* module-level frame; a binding is renamed as if alone only for the       *)
(* symbols no do-block statement of an earlier binding has bound there.    *)
(***************************************************************************)
LeakedBefore(k, s) ==
    \E j \in 1..(k - 1) : ItemBinds(LexItems(ModuleExprs[j], s, FALSE)) # {}

C10_ModuleBindings ==
    /\ [][BindingStep]_vars
    /\ []((Done /\ IsModule(Output)) =>
            /\ BindingNames
            /\ \A k \in 1..Len(ModuleExprs) : \A s \in Symbols :
                  /\ Walk(ModuleExprs[k], s,
                          WalkSeq(SubSeq(ModuleExprs, 1, k - 1), s, 0, FALSE).cur, FALSE).ok
                  /\ ~LeakedBefore(k, s) => Walk(ModuleExprs[k], s, 0, FALSE).ok)

\* A module with an instance binding and a top-level binding of one symbol,
\* the second referring to a symbol the first binds locally.
C10_Witness ==
    /\ Done
    /\ IsModule(Output)
    /\ \E k \in 2..Len(ModuleExprs) : \E s \in Symbols :
          /\ ~LeakedBefore(k, s)
          /\ s \in SymbolsOf(Binders(ModuleExprs[k - 1]))
          /\ Name(s, 0) \in Refs(ModuleExprs[k])

(***************************************************************************)
(* C11  In rename_module the module's name carries a fresh positive uid,   *)
(* issued by the last call of the pass, that no binding occurrence and no  *)
(* identifier of the result carries, and no lookup of the pass has         *)
(* returned it, whatever the symbols of the bindings.                      *)
(***************************************************************************)
OutputRefs == UNION {Refs(e) : e \in OutputRoots}

C11_ModuleName ==
    (Done /\ IsModule(Output)) =>
        /\ Output.name.uid > 1
        /\ log[Len(log)] = [op |-> "make_unique", name |-> Output.name]
        /\ \A i \in 1..(Len(log) - 1) :
              log[i].op \in {"make_unique", "get_name"} => log[i].name # Output.name
        /\ Output.name.uid \notin Uids(OutputBinders) \cup Uids(OutputRefs)
        /\ \A b \in Range(ModuleBindingsOf(Output)) : b.name.uid # Output.name.uid

\* A module whose bindings bind its symbol locally and refer to it.
C11_Witness ==
    /\ Done
    /\ IsModule(Output)
    /\ Output.name.name \in SymbolsOf(OutputBinders)
    /\ Output.name.name \in SymbolsOf(OutputRefs)
    /\ \E b \in Range(ModuleBindingsOf(Output)) : b.name.name = Output.name.name

(***************************************************************************)
(* C12  Scope pairing.  exit_scope is never called with no frame pushed;   *)
(* the frames pushed are exactly those of the Lambda, Let and alternative  *)
(* activations still between their enter_scope and their exit_scope, so    *)
(* the depth when a call of rename returns is the depth when it was made;  *)
(* and when the pass finishes every enter_scope has had its exit_scope and *)
(* the depth is 0.                                                         *)
(***************************************************************************)
\* An activation between its enter_scope and its exit_scope.
InScope(f) ==
    /\ f.fn = "rename"
    /\ \/ f.arg.expr.kind = "Lambda" /\ f.pc = "body"
       \/ f.arg.expr.kind = "Let" /\ f.pc \in {"bindings", "body"}
       \/ f.arg.expr.kind = "Case" /\ f.pc = "alt"

OpenScopes == Cardinality({i \in 1..Len(stack) : InScope(stack[i])})

C12_ScopePairing ==
    /\ \A k \in 0..Len(log) : Depth(k) >= 0
    /\ Len(uniques) = 1 + Depth(Len(log))
    /\ status \in {"running", "done"} => Depth(Len(log)) = OpenScopes
    /\ Done => Depth(Len(log)) = 0

\* A finished pass that was two scopes deep.
C12_Witness ==
    /\ Done
    /\ Len(uniques) = 1
    /\ \E k \in 1..Len(log) : Depth(k) >= 2
    /\ \E n \in OutputNodes : n.expr.kind = "Let"

(***************************************************************************)
(* The pass is one thread of synchronous calls: a step that can be taken   *)
(* is taken.                                                               *)
(***************************************************************************)
FairSpec == Spec /\ WF_vars(Next)

(***************************************************************************)
(* C13  The internal-consistency failure is unreachable: whenever          *)
(* rename_bindings looks up the name of the binding it is about to rename, *)
(* the scope table holds an entry for it, so no pass aborts, and every     *)
(* pass runs to completion.                                                *)
(***************************************************************************)
LookupFinds ==
    (Running("rename_bindings", "map") /\ Top.idx <= Len(Top.arg))
        => find(uniques, Top.arg[Top.idx].name).some

C13_NeverAborts ==
    /\ [](LookupFinds /\ status # "panicked")
    /\ <>Done

\* A finished pass over a Let whose first binding holds a do-block that binds
\* the name of the second binding again.
C13_Witness ==
    /\ Done
    /\ \E n \in OutputNodes :
          /\ n.expr.kind = "Let"
          /\ Len(n.expr.bindings) >= 2
          /\ n.expr.bindings[2].name.name \in SymbolsOf(DoBinders(n.expr.bindings[1].expression))

(***************************************************************************)
(* C14  Scope-exit restoration.  When the renaming of a Lambda or of a Let *)
(* (whatever it contains), or of any expression without a do-block,        *)
(* returns, the scope table is the one the call was made with; the counter *)
(* has not gone down.                                                      *)
(***************************************************************************)
NoDo(e) == \A n \in SubExprs(e) : n.expr.kind # "Do"

Restores(f) == f.arg.expr.kind \in {"Lambda", "Let"} \/ NoDo(f.arg)

RestoreStep ==
    (status = "running" /\ Top.fn = "rename" /\ Len(stack') < Len(stack) /\ Restores(Top))
        => (uniques' = Entry0 /\ unique_id' >= unique_id)

C14_ScopeExitRestoration == [][RestoreStep]_vars

\* A lambda that holds a do-block binding a symbol has just returned to a
\* caller in whose scope that symbol is bound.
C14_Witness ==
    /\ InRename("Apply", "func")
    /\ ret[1].expr.kind = "Lambda"
    /\ \E b \in DoBinders(ret[1]) :
          /\ find(uniques, b.name).some
          /\ find(uniques, b.name).value # b

(***************************************************************************)
(* C15  Determinism with fresh pass state.  Every call of rename_expr and  *)
(* of rename_module starts from an empty scope table and the counter at 1, *)
(* whatever an earlier pass has left; and two passes over the same input   *)
(* give the same result, uids included, whatever was renamed between them. *)
(***************************************************************************)
FreshStep ==
    (status \in {"idle", "done"} /\ status' = "running")
        => (uniques' = ScopedMapNew /\ unique_id' = InitialUniqueId)

SameResult(p, q) ==
    (IsModule(p.input) = IsModule(q.input) /\ p.input = q.input) => p.output = q.output

C15_Determinism ==
    /\ [][FreshStep]_vars
    /\ [](\A i, j \in 1..Len(passes) : SameResult(passes[i], passes[j]))

\* Three passes, the first and the third over one input, the second over a
\* module, which leaves its name and a do-block's binding in the scope table.
C15_Witness ==
    /\ Len(passes) = 3
    /\ IsModule(passes[2].input)
    /\ ~IsModule(passes[1].input)
    /\ passes[1].input = passes[3].input
    /\ \E m, n \in SubExprs(passes[3].output) :
          n.expr.kind = "Lambda" /\ m.expr.kind = "Identifier" /\ m.expr.name.uid > 0

(***************************************************************************)
(* C16  Order of renaming in a Case.  The call a Case activation makes     *)
(* next is for the first alternative not yet collected, and for the        *)
(* scrutinee only when all are collected; so in the result the uids bound  *)
(* in an alternative are smaller than those bound in a later alternative   *)
(* and than those bound in the scrutinee, and no identifier of an          *)
(* alternative carries the uid of a binding a do-block of the scrutinee    *)
(* has left in the enclosing frame.                                        *)
(***************************************************************************)
CaseCallStep ==
    (InRename("Case", "start") /\ Len(stack') > Len(stack)) =>
        LET alts == Top.arg.expr.alts
            k == Len(Top.acc) + 1
        IN  IF k <= Len(alts)
            THEN stack'[1].arg = alts[k].expression /\ stack'[2].pc = "alt"
            ELSE stack'[1].arg = Top.arg.expr.expr /\ stack'[2].pc = "expr"

Below(us, vs) == \A u \in us : \A v \in vs : u < v

CaseOrder(c) ==
    LET alts == c.expr.alts
    IN  /\ \A i, j \in 1..Len(alts) :
              i < j => Below(Uids(AltBinders(alts[i])), Uids(AltBinders(alts[j])))
        /\ \A i \in 1..Len(alts) :
              /\ Below(Uids(AltBinders(alts[i])), Uids(Binders(c.expr.expr)))
              /\ DoBinders(c.expr.expr) \cap Refs(alts[i].expression) = {}

C16_CaseOrder ==
    /\ [][CaseCallStep]_vars
    /\ [](Done => \A c \in CaseNodes : CaseOrder(c))

\* A Case whose scrutinee holds a do-block binding a symbol that an
\* alternative, itself binding another symbol, refers to.
C16_Witness ==
    /\ Done
    /\ \E c \in CaseNodes : \E i \in 1..Len(c.expr.alts) :
          /\ PatternNames(c.expr.alts[i].pattern.node) # {}
          /\ \E b \in DoBinders(c.expr.expr) : \E n \in Refs(c.expr.alts[i].expression) :
                n.name = b.name /\ n.uid # b.uid

(***************************************************************************)
(* C17  Allocation accounting.  In a pass the counter changes only by the  *)
(* calls of make_unique, by 1 for each, and never goes down; make_unique   *)
(* is called once for every binding site (lambda parameter, name of a let  *)
(* or do-let binding, identifier pattern, module name) and for nothing     *)
(* else: after a pass over an input with n binding sites the uids issued   *)
(* are 2 .. n+1, in that order, and the counter is n+1.                    *)
(***************************************************************************)
CountCalls(events) == Len(SelectSeq(events, LAMBDA ev : ev.op = "make_unique"))

CounterStep ==
    status = "running" =>
        /\ Len(log') >= Len(log)
        /\ SubSeq(log', 1, Len(log)) = log
        /\ unique_id' = unique_id + CountCalls(SubSeq(log', Len(log) + 1, Len(log')))

\* The binding sites of the input, counted on the result, which has its shape.
BindingSites ==
    AllocSeq(OutputSeq, 0).n + (IF IsModule(Output) THEN 1 ELSE 0)

C17_AllocationAccounting ==
    /\ [][CounterStep]_vars
    /\ [](unique_id = InitialUniqueId + Len(Issued))
    /\ [](\A i \in 1..Len(Issued) : Issued[i].uid = i + 1)
    /\ [](Done => (Len(Issued) = BindingSites /\ unique_id = BindingSites + 1))

\* A module pass with a lambda parameter, a pattern of a do-block and the
\* module's name allocated.
C17_Witness ==
    /\ Done
    /\ IsModule(Output)
    /\ unique_id >= 4
    /\ \E n \in OutputNodes : n.expr.kind = "Lambda"
    /\ OutputPatterns # {}
====
